---- MODULE Spec2Model ----
(***************************************************************************)
(* Model of ompl_planner_base::OMPLPlannerBase (src/src/ompl_planner_base. *)
(* cpp): initialize, makePlan, footprintCost, isStateValid2DGrid,          *)
(* interpolatePathPose2D, setPlannerType and the pose conversions.         *)
(*                                                                         *)
(* Units.  Lengths are exact rationals in units of the map resolution,     *)
(* which is taken to be 0.10 m (so the default max_dist_between_pathframes *)
(* of 0.10 is 1).  Angles are exact rationals in units of pi / HalfTurn.   *)
(* A Pose2D is [x, y, theta, den] and stands for (x/den, y/den, theta/den).*)
(***************************************************************************)
EXTENDS Integers, Sequences, FiniteSets, TLC

\* ------------------------------------------------------------- bounds
\* Largest coordinate of a requested start or goal pose.
MaxCoord == 3
\* Cells of the cost grid along each axis.
MapSize == 3
\* Largest value of the max_dist_between_pathframes parameter.
MaxSpacing == 2
\* Longest path handed to interpolatePathPose2D on its own.
MaxPathLen == 3
\* Largest coordinate of a frame of such a path.
MaxIpoCoord == 2

\* ------------------------------------------------ program constants
\* pi in the model's angle unit (angles::normalize_angle maps to (-pi, pi]).
HalfTurn == 2
\* readParameters: default of max_dist_between_pathframes (0.10 m).
DefaultMaxDist == 1
\* readParameters: default of max_footprint_cost.
DefaultMaxFootprintCost == 256

\* setPlannerType: default of global_planner_type.
DefaultPlanner == "LBKPIECE"

\* The nine names setPlannerType compares against.
SupportedPlanners ==
  {"EST", "KPIECE", "LBKPIECE", "LazyRRT", "pRRT", "RRT", "RRTConnect", "pSBL", "SBL"}

\* A parameter of the parameter server: not set, or set to v.
Unset == <<>>

Set(v) == <<v>>

\* ------------------------------------------------------ arithmetic
Abs(a) == IF a < 0 THEN -a ELSE a

RECURSIVE GCD(_, _)
GCD(a, b) == IF b = 0 THEN a ELSE GCD(b, a % b)

\* angles::normalize_angle on the rational num/den: the representative of the
\* angle in (-pi, pi], as a numerator over den.
NormalizeAngle(num, den) ==
  LET p == 2 * HalfTurn * den
      a == num % p
  IN  IF a > HalfTurn * den THEN a - p ELSE a

\* A Pose2D with its three rationals over the smallest common denominator.
Reduce(f) ==
  LET g == GCD(GCD(GCD(Abs(f.x), Abs(f.y)), Abs(f.theta)), f.den)
  IN  [x |-> f.x \div g, y |-> f.y \div g, theta |-> f.theta \div g, den |-> f.den \div g]

Pose2D(x, y, theta) == [x |-> x, y |-> y, theta |-> theta, den |-> 1]

\* Seeded fault for Dist2Num: the y term is left out of the distance.
Dist2NumXOnly(a, b) ==
  LET dx == b.x * a.den - a.x * b.den
  IN  dx * dx

\* frame_distance squared: diff_frame.x^2 + diff_frame.y^2, as a numerator
\* over (a.den * b.den)^2.
Dist2Num(a, b) ==
  LET dx == b.x * a.den - a.x * b.den
      dy == b.y * a.den - a.y * b.den
  IN  dx * dx + dy * dy

\* ------------------------------------------- interpolatePathPose2D
\* Seeded fault for NumInsertions: the quotient is rounded down.
NumInsertionsFloor(d2num, d2den, m) ==
  CHOOSE n \in 0..(d2num + 1) :
    /\ n * n * m * m * d2den * d2den <= d2num
    /\ (n + 1) * (n + 1) * m * m * d2den * d2den > d2num

\* ceil(frame_distance / max_dist_between_pathframes_), where the squared
\* distance is d2num / d2den^2: the least n with n * m >= frame_distance.
NumInsertions(d2num, d2den, m) ==
  CHOOSE n \in 0..(d2num + 1) :
    /\ n * n * m * m * d2den * d2den >= d2num
    /\ n = 0 \/ (n - 1) * (n - 1) * m * m * d2den * d2den < d2num

\* The j-th frame inserted between last_frame and curr_frame, n insertions.
TempFrame(last, curr, n, j) ==
  LET d   == last.den * curr.den
      dx  == curr.x * last.den - last.x * curr.den
      dy  == curr.y * last.den - last.y * curr.den
      dth == NormalizeAngle(curr.theta * last.den - last.theta * curr.den, d)
      den == d * (n + 1)
  IN  Reduce([x     |-> last.x * curr.den * (n + 1) + j * dx,
              y     |-> last.y * curr.den * (n + 1) + j * dy,
              theta |-> NormalizeAngle(last.theta * curr.den * (n + 1) + j * dth, den),
              den   |-> den])

\* One pass of the loop body: the frames appended for path[i].
FramesFor(last, curr, m) ==
  LET d2n == Dist2Num(last, curr)
      d2d == last.den * curr.den
  IN  IF d2n > m * m * d2d * d2d
      THEN LET n == NumInsertions(d2n, d2d, m)
           IN  [j \in 1..n |-> TempFrame(last, curr, n, j)] \o <<curr>>
      ELSE <<curr>>

RECURSIVE IpoLoop(_, _, _, _)
IpoLoop(path, m, i, ipoPath) ==
  IF i > Len(path) THEN ipoPath
  ELSE IpoLoop(path, m, i + 1,
               ipoPath \o FramesFor(ipoPath[Len(ipoPath)], path[i], m))

\* Seeded fault for InterpolatePathPose2D: the start frame is pushed with its
\* heading normalized.
InterpolatePathPose2DNormalizedStart(path, m) ==
  IF Len(path) < 2
  THEN [ok |-> FALSE, path |-> path]
  ELSE [ok |-> TRUE,
        path |-> IpoLoop(path, m, 2,
                         <<[path[1] EXCEPT !.theta = NormalizeAngle(@, path[1].den)]>>)]

\* bool interpolatePathPose2D(path): the return value and path afterwards.
InterpolatePathPose2D(path, m) ==
  IF Len(path) < 2
  THEN [ok |-> FALSE, path |-> path]
  ELSE [ok |-> TRUE, path |-> IpoLoop(path, m, 2, <<path[1]>>)]

\* ------------------------------------------------------------ state
VARIABLES
  initialized_,            \* OMPLPlannerBase::initialized_
  publish_diagnostics_,    \* read once, by initialize
  footprint_spec_,         \* the planner's copy of the robot footprint
  inscribed_radius_,       \* the planner's copy of the inscribed radius
  circumscribed_radius_,   \* the planner's copy of the circumscribed radius
  costmap_ros,             \* the live environment model (Costmap2DROS)
  pc,                      \* the caller: "idle" or "returned"
  call,                    \* what the last makePlan invocation did
  ipo                      \* a stand-alone run of interpolatePathPose2D

vars ==
  <<initialized_, publish_diagnostics_, footprint_spec_, inscribed_radius_,
    circumscribed_radius_, costmap_ros, pc, call, ipo>>

\* ------------------------------------------------ environment model
\* The frame the cost map is kept in (Costmap2DROS::getGlobalFrameID).
GlobalFrame == "map"

\* A footprint of fewer than three vertices, and two polygons.
LineFootprint == << <<0, 0>>, <<1, 0>> >>

PointFootprint == << <<0, 0>>, <<0, 0>>, <<0, 0>> >>

TriFootprint == << <<0, 0>>, <<1, 0>>, <<0, 1>> >>

Footprints == {LineFootprint, PointFootprint, TriFootprint}

\* The radii the layered cost map derives from a footprint (squared).
InscribedOf(fp) ==
  LET S == {fp[i][1] * fp[i][1] + fp[i][2] * fp[i][2] : i \in 1..Len(fp)}
  IN  CHOOSE r \in S : \A q \in S : r <= q

CircumscribedOf(fp) ==
  LET S == {fp[i][1] * fp[i][1] + fp[i][2] * fp[i][2] : i \in 1..Len(fp)}
  IN  1 + (CHOOSE r \in S : \A q \in S : r >= q)

Grids == {"free", "marked"}

Origins == {<<0, 0>>, <<1, -1>>}

\* The cost stored in a cell of the grid.
GridCost(grid, cell) ==
  IF grid = "free" THEN 0
  ELSE CASE cell = <<0, 1>> -> 254
         [] cell = <<1, 1>> -> 100
         [] cell = <<2, 1>> -> 150
         [] OTHER -> 0

InMap(cell) == cell[1] \in 0..(MapSize - 1) /\ cell[2] \in 0..(MapSize - 1)

\* A footprint vertex turned by theta (a multiple of a quarter turn).
Rotate(v, theta) ==
  CASE theta = HalfTurn -> <<-v[1], -v[2]>>
    [] 2 * theta = HalfTurn -> <<-v[2], v[1]>>
    [] 2 * theta = -HalfTurn -> <<v[2], -v[1]>>
    [] OTHER -> v

\* base_local_planner::CostmapModel::footprintCost on the live cost map: -1
\* when a footprint cell is off the map or lethal, else the largest cell cost.
WorldModelFootprintCost(x, y, theta, footprint, inscribed, circumscribed) ==
  LET o     == costmap_ros.origin
      cells == {<<x + Rotate(footprint[i], theta)[1] - o[1],
                  y + Rotate(footprint[i], theta)[2] - o[2]>> : i \in 1..Len(footprint)}
      costs == {GridCost(costmap_ros.grid, c) : c \in cells}
  IN  IF \E c \in cells : ~InMap(c) THEN -1
      ELSE IF \E k \in costs : k >= 253 THEN -1
      ELSE CHOOSE k \in costs : \A q \in costs : k >= q

\* ----------------------------------------------------- conversions
\* convert(geometry_msgs::Pose, Pose2D): the yaw of the orientation, normalized.
ConvertPoseToPose2D(pose) == Pose2D(pose.x, pose.y, NormalizeAngle(pose.yaw, 1))

\* convert(ompl::base::State*, Pose2D): the yaw of the state, normalized.
ConvertStateToPose2D(state) == Pose2D(state.x, state.y, NormalizeAngle(state.yaw, 1))

\* convert(Pose2D, geometry_msgs::Pose): z = 0 and the quaternion of the yaw,
\* which keeps the angle modulo a full turn.
ConvertPose2DToPose(p) ==
  [x |-> p.x, y |-> p.y, z |-> 0, yaw |-> NormalizeAngle(p.theta, p.den), den |-> p.den]

\* ------------------------------------------------- validity oracle
\* double footprintCost(pose)
FootprintCost(pose) ==
  IF Len(footprint_spec_) < 3 THEN -1
  ELSE WorldModelFootprintCost(pose.x, pose.y, pose.theta, footprint_spec_,
                               inscribed_radius_, circumscribed_radius_)

\* int sample_costs = footprintCost(..): the costs are whole numbers.
ToInt(costs) == costs

\* Seeded fault for EndpointInCollision: the ceiling is not tested.
EndpointInCollisionNoCeiling(sample_costs, max_footprint_cost) == sample_costs < 0

\* makePlan's test of an endpoint: TRUE when planning is aborted.
EndpointInCollision(sample_costs, max_footprint_cost) ==
  (sample_costs < 0) \/ (sample_costs > max_footprint_cost)

\* The verdict of isStateValid2DGrid for a footprint cost.
CostsValid(costs, max_footprint_cost) == (costs >= 0) /\ (costs < max_footprint_cost)

\* bool isStateValid2DGrid(state)
IsStateValid2DGrid(state, max_footprint_cost) ==
  CostsValid(FootprintCost(ConvertStateToPose2D(state)), max_footprint_cost)

\* What the world model was handed for one footprint-cost query.
Query(by, pose, max_footprint_cost) ==
  LET c == FootprintCost(pose)
  IN  [by |-> by, pose |-> pose, cost |-> c,
       ok |-> IF by = "endpoint" THEN ~EndpointInCollision(ToInt(c), max_footprint_cost)
              ELSE CostsValid(c, max_footprint_cost),
       footprint |-> footprint_spec_, inscribed |-> inscribed_radius_,
       circumscribed |-> circumscribed_radius_, grid |-> costmap_ros.grid]

\* ------------------------------------------------------ state space
\* The RealVectorBounds makePlan sets on the SE2 state space.
AxisBounds(origin, size) ==
  LET map_upperbound == size - origin
      map_lowerbound == map_upperbound - size
  IN  [low |-> map_lowerbound, high |-> map_upperbound]

ComputeBounds ==
  [x |-> AxisBounds(costmap_ros.origin[1], MapSize),
   y |-> AxisBounds(costmap_ros.origin[2], MapSize)]

\* SE2StateSpace::satisfiesBounds on a state set from a Pose2D.
SatisfiesBounds(bounds, p) ==
  /\ bounds.x.low * p.den <= p.x /\ p.x <= bounds.x.high * p.den
  /\ bounds.y.low * p.den <= p.y /\ p.y <= bounds.y.high * p.den

\* ------------------------------------------------- setPlannerType
\* Seeded fault for SetPlannerType: an unknown name falls back to the default planner.
SetPlannerTypeSilentDefault(param) ==
  LET planner_type_ == IF param = Unset THEN DefaultPlanner ELSE param[1]
  IN  [planner_type_ |-> planner_type_, fatal |-> FALSE,
       handle |-> IF planner_type_ \in SupportedPlanners THEN planner_type_ ELSE "LBKPIECE1"]

\* The planner handed to SimpleSetup::setPlanner and whether ROS_FATAL ran.
SetPlannerType(param) ==
  LET planner_type_ == IF param = Unset THEN DefaultPlanner ELSE param[1]
  IN  [planner_type_ |-> planner_type_,
       fatal  |-> planner_type_ \notin SupportedPlanners,
       handle |-> CASE planner_type_ = "EST" -> "EST"
                    [] planner_type_ = "KPIECE" -> "KPIECE1"
                    [] planner_type_ = "LBKPIECE" -> "LBKPIECE1"
                    [] planner_type_ = "LazyRRT" -> "LazyRRT"
                    [] planner_type_ = "pRRT" -> "pRRT"
                    [] planner_type_ = "RRT" -> "RRT"
                    [] planner_type_ = "RRTConnect" -> "RRTConnect"
                    [] planner_type_ = "pSBL" -> "pSBL"
                    [] planner_type_ = "SBL" -> "SBL"
                    [] OTHER -> "null"]

\* ------------------------------------------------- readParameters
ReadParameters(server) ==
  [max_dist_between_pathframes_ |->
     IF server.max_dist = Unset THEN DefaultMaxDist
     ELSE IF server.max_dist[1] <= 0 THEN DefaultMaxDist ELSE server.max_dist[1],
   max_footprint_cost_ |->
     IF server.max_cost = Unset THEN DefaultMaxFootprintCost ELSE server.max_cost[1],
   interpolate_path_ |-> server.interpolate]

\* ------------------------------------------------------- makePlan
\* The record of an invocation: its arguments, what it returned, the plan
\* vector on return, and what it did on the way, in order (trace).  The
\* member publish_diagnostics_ is recorded as the invocation found it; twin
\* is the outcome of the same invocation had the member been the other value.
NoCall ==
  [ret |-> FALSE, reason |-> "none", plan |-> <<>>, trace |-> <<>>,
   start |-> <<>>, goal |-> <<>>, planner_param |-> <<>>, env |-> <<>>,
   prm |-> <<>>, bounds |-> <<>>, queries |-> <<>>, planner |-> <<>>,
   solved |-> FALSE, raw |-> <<>>, dense |-> <<>>, diag |-> <<>>, stats |-> <<>>,
   publish_diagnostics_ |-> FALSE, twin |-> <<>>]

\* convert(Pose2D, ScopedState): the state set from a Pose2D.
ConvertPose2DToState(p) == [x |-> p.x, y |-> p.y, yaw |-> p.theta]

\* The diagnostics message as published.
DiagMsg(r, solved, trajectory_size) ==
  [summary |-> IF solved THEN "Planning success" ELSE "Planning Failed",
   group |-> "base", planner |-> r.planner.planner_type_,
   result |-> IF solved THEN "success" ELSE "failed",
   trajectory_size |-> trajectory_size]

\* Seeded fault for UnsolvedBranch: the failure is returned without diagnostics.
UnsolvedBranchSilent(r) == [r EXCEPT !.reason = "unsolved"]

\* if(!solved): diagnostics with trajectory_size 0, return false.
UnsolvedBranch(r) ==
  IF r.publish_diagnostics_
  THEN [r EXCEPT !.reason = "unsolved",
                 !.diag = Append(@, DiagMsg(r, FALSE, 0)),
                 !.trace = Append(@, "publish_diagnostics")]
  ELSE [r EXCEPT !.reason = "unsolved"]

\* The frames copied into the plan: i < num_frames_inpath of temp_plan_Pose2D.
CopyToPlan(temp_plan_Pose2D, num_frames_inpath) ==
  [i \in 1..num_frames_inpath |->
     [frame |-> GlobalFrame, pose |-> ConvertPose2DToPose(temp_plan_Pose2D[i])]]

\* The stats message as published.
StatsMsg(r) ==
  [start |-> r.start, goal |-> r.goal,
   start_goal_dist2 |-> Dist2Num(ConvertPoseToPose2D(r.start), ConvertPoseToPose2D(r.goal))]

\* Path conversion, interpolation, plan hand-over and stats.
FinishPlan(r, temp_plan_Pose2D) ==
  LET num_frames_inpath == Len(r.raw)
      res == IF r.prm.interpolate_path_
             THEN InterpolatePathPose2D(temp_plan_Pose2D, r.prm.max_dist_between_pathframes_)
             ELSE [ok |-> TRUE, path |-> temp_plan_Pose2D]
      r1  == IF r.prm.interpolate_path_
             THEN [r EXCEPT !.dense = res.path, !.trace = Append(@, "interpolate")]
             ELSE r
  IN  IF ~res.ok THEN [r1 EXCEPT !.reason = "interpolation_error"]
      ELSE LET r2 == [r1 EXCEPT !.plan = CopyToPlan(res.path, num_frames_inpath),
                                !.trace = Append(@, "publish_plan"),
                                !.reason = "ok", !.ret = TRUE]
           IN  IF r.publish_diagnostics_
               THEN [r2 EXCEPT !.stats = Append(@, StatsMsg(r)),
                               !.trace = Append(@, "publish_stats")]
               ELSE r2

\* Seeded fault for SolvedBranch: the diagnostics are published whether or
\* not publish_diagnostics_ is set.
SolvedBranchAlwaysPublishes(r, path) ==
  LET r1 == [r EXCEPT !.raw = path, !.trace = Append(@, "simplify")]
      r2 == [r1 EXCEPT !.diag = Append(@, DiagMsg(r, TRUE, Len(path))),
                       !.trace = Append(@, "publish_diagnostics")]
  IN  FinishPlan(r2, [i \in 1..Len(path) |-> ConvertStateToPose2D(path[i])])

\* The solved branch: simplify, publish diagnostics, then finish the plan.
SolvedBranch(r, path) ==
  LET r1 == [r EXCEPT !.raw = path, !.trace = Append(@, "simplify")]
      r2 == IF r.publish_diagnostics_
            THEN [r1 EXCEPT !.diag = Append(@, DiagMsg(r, TRUE, Len(path))),
                            !.trace = Append(@, "publish_diagnostics")]
            ELSE r1
  IN  FinishPlan(r2, [i \in 1..Len(path) |-> ConvertStateToPose2D(path[i])])

\* setStartAndGoalStates, setPlannerType, solve.  The planner asks the
\* oracle about the start and the goal state; sol is what solve returns.
PlanAndSolve(r, start2D, goal2D, sol) ==
  LET sel == SetPlannerType(r.planner_param)
      mfc == r.prm.max_footprint_cost_
      r1  == [r EXCEPT !.planner = sel,
                !.trace = @ \o (IF sel.fatal THEN <<"fatal">> ELSE <<>>)
                            \o <<"set_planner", "solve">>,
                !.queries = @ \o <<Query("planner", start2D, mfc),
                                   Query("planner", goal2D, mfc)>>,
                !.solved = sol.solved]
  IN  IF ~sol.solved THEN UnsolvedBranch(r1) ELSE SolvedBranch(r1, sol.path)

\* The two satisfiesBounds tests.
CheckBounds(r, start2D, goal2D, sol) ==
  IF ~SatisfiesBounds(r.bounds, start2D) THEN [r EXCEPT !.reason = "start_out_of_bounds"]
  ELSE IF ~SatisfiesBounds(r.bounds, goal2D) THEN [r EXCEPT !.reason = "goal_out_of_bounds"]
  ELSE PlanAndSolve(r, start2D, goal2D, sol)

\* The collision tests of the goal and then of the start.
CheckEndpoints(r, start2D, goal2D, sol) ==
  LET mfc == r.prm.max_footprint_cost_
      qg  == Query("endpoint", goal2D, mfc)
      qs  == Query("endpoint", start2D, mfc)
      r1  == [r EXCEPT !.queries = Append(@, qg), !.trace = Append(@, "footprint_cost")]
      r2  == [r1 EXCEPT !.queries = Append(@, qs), !.trace = Append(@, "footprint_cost")]
  IN  IF EndpointInCollision(ToInt(qg.cost), mfc) THEN [r1 EXCEPT !.reason = "goal_collision"]
      ELSE IF EndpointInCollision(ToInt(qs.cost), mfc) THEN [r2 EXCEPT !.reason = "start_collision"]
      ELSE CheckBounds(r2, start2D, goal2D, sol)

\* State space, bounds and validity checker.
SetupSpace(r, sol) ==
  LET r1 == [r EXCEPT !.bounds = ComputeBounds,
                      !.trace = @ \o <<"set_bounds", "set_validity_checker">>]
  IN  CheckEndpoints(r1, ConvertPoseToPose2D(r.start), ConvertPoseToPose2D(r.goal), sol)

\* bool makePlan(start, goal, plan): the invocation from its first line, on
\* a planner whose member publish_diagnostics_ holds diagnostics.
MakePlanRun(diagnostics, start, goal, plan, server, sol) ==
  LET r0 == [NoCall EXCEPT !.start = start, !.goal = goal, !.plan = plan,
                           !.planner_param = server.planner, !.env = costmap_ros,
                           !.publish_diagnostics_ = diagnostics]
  IN  IF ~initialized_ THEN [r0 EXCEPT !.reason = "not_initialized"]
      ELSE LET r1 == [r0 EXCEPT !.prm = ReadParameters(server), !.plan = <<>>,
                                !.trace = <<"read_parameters", "clear_plan">>]
           IN  IF goal.frame # GlobalFrame THEN [r1 EXCEPT !.reason = "frame_mismatch"]
               ELSE SetupSpace(r1, sol)

\* What a caller and the subscribers of the two topics see of an invocation.
Outcome(r) ==
  [ret |-> r.ret, reason |-> r.reason, plan |-> r.plan, trace |-> r.trace,
   diag |-> r.diag, stats |-> r.stats]

\* ------------------------------------------------------- requests
\* The poses a caller asks for (geometry_msgs::PoseStamped).
StartPoses ==
  {[frame |-> GlobalFrame, x |-> x, y |-> 1, yaw |-> 0] : x \in 0..MaxCoord}

GoalPoses ==
  {[frame |-> GlobalFrame, x |-> x, y |-> 1, yaw |-> w] :
     x \in 0..MaxCoord, w \in {0, -HalfTurn}}
  \cup {[frame |-> GlobalFrame, x |-> 2, y |-> 0, yaw |-> 0],
        [frame |-> "odom", x |-> 1, y |-> 1, yaw |-> 0]}

\* What the caller's plan vector holds when makePlan is entered.
StalePlan == <<[frame |-> GlobalFrame, pose |-> ConvertPose2DToPose(Pose2D(0, 0, 0))]>>

CallerPlans == {<<>>, StalePlan}

\* The parameter server as readParameters and setPlannerType find it.
ParamServers ==
  [max_dist : {Set(0), Set(MaxSpacing)}, max_cost : {Unset, Set(100)},
   interpolate : BOOLEAN, planner : {Unset, Set("SBL"), Set("Bogus")}]

\* A state the planner may route the path through.
ViaStates == {[x |-> 1, y |-> 0, yaw |-> HalfTurn]}

\* What solve may come back with: no solution, or a path from the start to
\* the goal all of whose states the validity checker accepts, in bounds.
SolveOutcomes(start, goal, server) ==
  LET s   == ConvertPose2DToState(ConvertPoseToPose2D(start))
      g   == ConvertPose2DToState(ConvertPoseToPose2D(goal))
      mfc == ReadParameters(server).max_footprint_cost_
      ok(st) == /\ IsStateValid2DGrid(st, mfc)
                /\ SatisfiesBounds(ComputeBounds, ConvertStateToPose2D(st))
      paths == {<<s, g>>} \cup {<<s, v, g>> : v \in ViaStates}
               \cup (IF s = g THEN {<<s>>} ELSE {})
  IN  {[solved |-> FALSE, path |-> <<>>]}
      \cup {[solved |-> TRUE, path |-> p] :
              p \in {q \in paths : \A i \in 1..Len(q) : ok(q[i])}}

\* -------------------------------------------------------- actions
NoIpo == [pc |-> "off", path |-> <<>>, m |-> 1, ok |-> FALSE, out |-> <<>>]

\* The environment the planner is constructed in.
Environments ==
  {[footprint |-> fp, inscribed |-> InscribedOf(fp), circumscribed |-> CircumscribedOf(fp),
    grid |-> g, origin |-> o] : fp \in Footprints, g \in Grids, o \in Origins}

\* The default constructor sets initialized_ only; the other members are first
\* read after initialize has written them, so their values here are immaterial.
Init ==
  /\ initialized_ = FALSE
  /\ publish_diagnostics_ = FALSE
  /\ footprint_spec_ = <<>>
  /\ inscribed_radius_ = 0
  /\ circumscribed_radius_ = 0
  /\ costmap_ros \in Environments
  /\ pc = "idle"
  /\ call = NoCall
  /\ ipo = NoIpo

\* void initialize(name, costmap_ros)
Initialize ==
  /\ pc = "idle"
  /\ \/ /\ ~initialized_
        /\ \E diag \in BOOLEAN : publish_diagnostics_' = diag
        /\ inscribed_radius_' = costmap_ros.inscribed
        /\ circumscribed_radius_' = costmap_ros.circumscribed
        /\ footprint_spec_' = costmap_ros.footprint
        /\ initialized_' = TRUE
     \/ /\ initialized_
        /\ UNCHANGED <<initialized_, publish_diagnostics_, footprint_spec_,
                       inscribed_radius_, circumscribed_radius_>>
  /\ UNCHANGED <<costmap_ros, pc, call, ipo>>

\* bool makePlan(start, goal, plan)
MakePlan ==
  /\ pc = "idle"
  /\ \E start \in StartPoses, goal \in GoalPoses, plan \in CallerPlans,
        server \in ParamServers :
       \E sol \in SolveOutcomes(start, goal, server) :
         call' = [MakePlanRun(publish_diagnostics_, start, goal, plan, server, sol)
                    EXCEPT !.twin = Outcome(MakePlanRun(~publish_diagnostics_, start, goal,
                                                        plan, server, sol))]
  /\ pc' = "returned"
  /\ UNCHANGED <<initialized_, publish_diagnostics_, footprint_spec_,
                 inscribed_radius_, circumscribed_radius_, costmap_ros, ipo>>

\* The caller takes the result; the invocation's locals are gone.
Return ==
  /\ pc = "returned"
  /\ pc' = "idle"
  /\ call' = NoCall
  /\ UNCHANGED <<initialized_, publish_diagnostics_, footprint_spec_,
                 inscribed_radius_, circumscribed_radius_, costmap_ros, ipo>>

\* The environment model changes between requests: a new footprint (the
\* layered cost map recomputes the radii), new cell costs, a moved origin.
SetFootprint ==
  /\ pc = "idle"
  /\ \E fp \in Footprints :
       costmap_ros' = [costmap_ros EXCEPT !.footprint = fp,
                                          !.inscribed = InscribedOf(fp),
                                          !.circumscribed = CircumscribedOf(fp)]
  /\ UNCHANGED <<initialized_, publish_diagnostics_, footprint_spec_,
                 inscribed_radius_, circumscribed_radius_, pc, call, ipo>>

UpdateMap ==
  /\ pc = "idle"
  /\ \E g \in Grids, o \in Origins :
       costmap_ros' = [costmap_ros EXCEPT !.grid = g, !.origin = o]
  /\ UNCHANGED <<initialized_, publish_diagnostics_, footprint_spec_,
                 inscribed_radius_, circumscribed_radius_, pc, call, ipo>>

Next == Initialize \/ MakePlan \/ Return \/ SetFootprint \/ UpdateMap

Spec == Init /\ [][Next]_vars

\* ------------------------- interpolatePathPose2D on its own inputs
\* The frames of the argument: any doubles, so a heading need not lie in
\* (-pi, pi]; HalfTurn + 1 is three quarters of a turn.
IpoFrames ==
  {Pose2D(2 * x, y, t) : x \in 0..MaxIpoCoord, y \in {0, 1}, t \in {0, HalfTurn + 1}}

RECURSIVE SeqsUpTo(_, _)
SeqsUpTo(S, n) ==
  IF n = 0 THEN {<<>>}
  ELSE LET T == SeqsUpTo(S, n - 1)
       IN  T \cup {Append(q, e) : q \in {t \in T : Len(t) = n - 1}, e \in S}

\* Two frames ten apart with max_dist_between_pathframes_ = 3.
ExampleCall ==
  [pc |-> "ready", path |-> <<Pose2D(0, 0, 0), Pose2D(10, 0, 0)>>, m |-> 3,
   ok |-> FALSE, out |-> <<>>]

IpoInit ==
  /\ initialized_ = FALSE
  /\ publish_diagnostics_ = FALSE
  /\ footprint_spec_ = <<>>
  /\ inscribed_radius_ = 0
  /\ circumscribed_radius_ = 0
  /\ costmap_ros = [footprint |-> PointFootprint, inscribed |-> InscribedOf(PointFootprint),
                    circumscribed |-> CircumscribedOf(PointFootprint),
                    grid |-> "free", origin |-> <<0, 0>>]
  /\ pc = "idle"
  /\ call = NoCall
  /\ \/ \E path \in SeqsUpTo(IpoFrames, MaxPathLen), m \in 1..MaxSpacing :
          ipo = [pc |-> "ready", path |-> path, m |-> m, ok |-> FALSE, out |-> <<>>]
     \/ ipo = ExampleCall

\* bool interpolatePathPose2D(path) with max_dist_between_pathframes_ = ipo.m
Interpolate ==
  /\ ipo.pc = "ready"
  /\ LET res == InterpolatePathPose2D(ipo.path, ipo.m)
     IN  ipo' = [ipo EXCEPT !.pc = "done", !.ok = res.ok, !.out = res.path]
  /\ UNCHANGED <<initialized_, publish_diagnostics_, footprint_spec_,
                 inscribed_radius_, circumscribed_radius_, costmap_ros, pc, call>>

IpoNext == Interpolate

SpecIpo == IpoInit /\ [][IpoNext]_vars

\* ------------------------------------------------- claim vocabulary
Range(q) == {q[i] : i \in 1..Len(q)}

\* The place of the first event e in a trace (0 when it has none).
FirstAt(trace, e) ==
  IF e \in Range(trace) THEN CHOOSE i \in 1..Len(trace) :
                                /\ trace[i] = e
                                /\ \A j \in 1..(i - 1) : trace[j] # e
  ELSE 0

Returned == pc = "returned"

\* The planar distance of frames a and b is at most m.
WithinSpacing(a, b, m) ==
  LET dx == b.x * a.den - a.x * b.den
      dy == b.y * a.den - a.y * b.den
  IN  dx * dx + dy * dy <= m * m * a.den * a.den * b.den * b.den

\* A pose of the plan is the Pose2D p: same position, same heading modulo a turn.
SamePose(stamped, p) ==
  /\ stamped.frame = GlobalFrame
  /\ stamped.pose.x * p.den = p.x * stamped.pose.den
  /\ stamped.pose.y * p.den = p.y * stamped.pose.den
  /\ NormalizeAngle(stamped.pose.yaw * p.den, stamped.pose.den * p.den)
       = NormalizeAngle(p.theta * stamped.pose.den, stamped.pose.den * p.den)

\* The plan is the path, frame for frame.
PlanIs(plan, path) ==
  /\ Len(plan) = Len(path)
  /\ \A i \in 1..Len(path) : SamePose(plan[i], path[i])

\* The configured planner name is none of the nine.
UnsupportedType ==
  call.planner_param # Unset /\ call.planner_param[1] \notin SupportedPlanners

\* C1: a successful makePlan with interpolate_path returns the densified path
\* (every frame, in order, ending at the raw path's last pose, consecutive
\* poses within max_dist_between_pathframes); without it, the raw path.
C1_PlanIsDensifiedPath ==
  (Returned /\ call.ret) =>
    LET raw == [i \in 1..Len(call.raw) |-> ConvertStateToPose2D(call.raw[i])]
    IN  IF call.prm.interpolate_path_
        THEN /\ PlanIs(call.plan, call.dense)
             /\ SamePose(call.plan[Len(call.plan)], raw[Len(raw)])
             /\ \A i \in 1..(Len(call.plan) - 1) :
                  WithinSpacing(call.plan[i].pose, call.plan[i + 1].pose,
                                call.prm.max_dist_between_pathframes_)
        ELSE PlanIs(call.plan, raw)

\* C2: whenever makePlan returns failure the caller's plan is empty.
C2_FailureLeavesPlanEmpty == (Returned /\ ~call.ret) => call.plan = <<>>

\* C3 as stated: an unsupported planner name ends in a fatal error raised
\* before any bounds are computed and before the oracle is built or queried.
C3_FatalBeforeBoundsAndOracle ==
  (Returned /\ UnsupportedType) =>
    /\ "fatal" \in Range(call.trace)
    /\ \A e \in {"set_bounds", "set_validity_checker", "footprint_cost"} :
         e \in Range(call.trace) => FirstAt(call.trace, "fatal") < FirstAt(call.trace, e)

\* C3 amended: the fatal error is logged exactly when a request with an
\* unsupported name has passed every precondition check, after the bounds were
\* set, the validity checker installed and both endpoints queried.
C3_FatalAfterBoundsAndOracle ==
  Returned =>
    /\ ("fatal" \in Range(call.trace)) <=>
         (UnsupportedType /\ call.reason \in {"unsolved", "interpolation_error", "ok"})
    /\ "fatal" \in Range(call.trace) =>
         /\ \A e \in {"set_bounds", "set_validity_checker", "footprint_cost"} :
              /\ e \in Range(call.trace)
              /\ FirstAt(call.trace, e) < FirstAt(call.trace, "fatal")
         /\ Len(SelectSeq(SubSeq(call.trace, 1, FirstAt(call.trace, "fatal")),
                          LAMBDA e : e = "footprint_cost")) = 2

C3_Witness == Returned /\ UnsupportedType /\ "fatal" \in Range(call.trace)

\* C4: with an unsupported planner name no planner handle is attached, solve
\* is never invoked and the invocation cannot return success.
C4_UnsupportedTypeHalts ==
  (Returned /\ UnsupportedType) =>
    /\ "set_planner" \notin Range(call.trace)
    /\ "solve" \notin Range(call.trace)
    /\ ~call.ret

\* C5: a pose is valid exactly when its footprint cost c is non-negative and
\* does not exceed max_footprint_cost, for the endpoint test and for the
\* planner's validity checker alike.
C5_SameVerdictEverywhere ==
  Returned =>
    \A i \in 1..Len(call.queries) :
      call.queries[i].ok = (/\ call.queries[i].cost >= 0
                            /\ call.queries[i].cost <= call.prm.max_footprint_cost_)

\* C6: the bounds set on each axis are the map's: low = origin, high = origin + size.
C6_BoundsMatchExtents ==
  (Returned /\ "set_bounds" \in Range(call.trace)) =>
    /\ call.bounds.x.low = call.env.origin[1]
    /\ call.bounds.x.high = call.env.origin[1] + MapSize
    /\ call.bounds.y.low = call.env.origin[2]
    /\ call.bounds.y.high = call.env.origin[2] + MapSize

\* C7: for a path of at least 2 frames and max_spacing > 0, consecutive frames
\* of interpolatePathPose2D's output are at planar distance <= max_spacing.
C7_SpacingBounded ==
  (ipo.pc = "done" /\ Len(ipo.path) >= 2) =>
    /\ ipo.ok
    /\ \A i \in 1..(Len(ipo.out) - 1) : WithinSpacing(ipo.out[i], ipo.out[i + 1], ipo.m)

C7_Witness ==
  /\ ipo.pc = "done"
  /\ Len(ipo.path) >= 3
  /\ Len(ipo.out) > Len(ipo.path) + 2

\* The footprint cost of a requested pose, as the validity oracle computes it.
CostOf(pose) == FootprintCost(ConvertPoseToPose2D(pose))

\* Free: the cost is non-negative and does not exceed the ceiling.
Free(pose) == CostOf(pose) >= 0 /\ CostOf(pose) <= call.prm.max_footprint_cost_

\* Inside the state-space bounds makePlan sets.
InBounds(pose) ==
  /\ ComputeBounds.x.low <= pose.x /\ pose.x <= ComputeBounds.x.high
  /\ ComputeBounds.y.low <= pose.y /\ pose.y <= ComputeBounds.y.high

\* The request of the last invocation has a precondition error.
PreconditionError ==
  \/ ~initialized_
  \/ call.goal.frame # GlobalFrame
  \/ Len(footprint_spec_) < 3
  \/ ~Free(call.goal)
  \/ ~Free(call.start)
  \/ ~InBounds(call.start)
  \/ ~InBounds(call.goal)

\* C8: every precondition error makes makePlan return failure without
\* selecting a planner or invoking solve.
C8_PreconditionErrorsStopEarly ==
  (Returned /\ PreconditionError) =>
    /\ ~call.ret
    /\ "set_planner" \notin Range(call.trace)
    /\ "solve" \notin Range(call.trace)
    /\ call.planner = <<>>

C8_Witness ==
  /\ Returned
  /\ initialized_
  /\ call.goal.frame = GlobalFrame
  /\ Len(footprint_spec_) >= 3
  /\ Free(call.goal)
  /\ Free(call.start)
  /\ InBounds(call.start)
  /\ ~InBounds(call.goal)
  /\ ~call.ret

\* C9: with diagnostics enabled, one diagnostics record is emitted if solve
\* was attempted and none otherwise, with trajectory_size 0 when unsolved and
\* the raw path's frame count when solved; a stats record is emitted only in
\* an invocation that returns success.
C9_DiagnosticsAndStats ==
  (Returned /\ publish_diagnostics_) =>
    /\ Len(call.diag) = (IF "solve" \in Range(call.trace) THEN 1 ELSE 0)
    /\ Len(call.diag) = 1 =>
         call.diag[1].trajectory_size = (IF call.solved THEN Len(call.raw) ELSE 0)
    /\ Len(call.stats) <= 1
    /\ ~call.ret => call.stats = <<>>

C9_Witness ==
  /\ Returned
  /\ publish_diagnostics_
  /\ "solve" \in Range(call.trace)
  /\ ~call.solved
  /\ Len(call.diag) = 1
  /\ call.diag[1].trajectory_size = 0
  /\ call.stats = <<>>

\* C10: the validity oracle of a request uses the footprint, the radii and
\* the cost model the environment model exposes at the time of that request.
C10_OracleUsesLiveEnvironment ==
  Returned =>
    \A i \in 1..Len(call.queries) :
      /\ call.queries[i].footprint = call.env.footprint
      /\ call.queries[i].inscribed = call.env.inscribed
      /\ call.queries[i].circumscribed = call.env.circumscribed
      /\ call.queries[i].grid = call.env.grid

\* The events of a trace that are not emissions to the diagnostics or stats topic.
ControlFlow(trace) ==
  SelectSeq(trace, LAMBDA e : e \notin {"publish_diagnostics", "publish_stats"})

\* The invocation as it runs with publish_diagnostics disabled, and enabled.
RunDisabled == IF call.publish_diagnostics_ THEN call.twin ELSE Outcome(call)

RunEnabled == IF call.publish_diagnostics_ THEN Outcome(call) ELSE call.twin

\* C11: for the same request, configuration, environment and planner outcome,
\* makePlan with publish_diagnostics disabled emits no diagnostics and no stats
\* record and takes the same control-flow path as with it enabled: the same
\* steps in the same order, the same return value and the same output plan.
C11_DisabledDiagnosticsSameFlow ==
  Returned =>
    /\ RunDisabled.diag = <<>>
    /\ RunDisabled.stats = <<>>
    /\ RunDisabled.trace = ControlFlow(RunDisabled.trace)
    /\ RunDisabled.trace = ControlFlow(RunEnabled.trace)
    /\ RunDisabled.ret = RunEnabled.ret
    /\ RunDisabled.reason = RunEnabled.reason
    /\ RunDisabled.plan = RunEnabled.plan

C11_Witness ==
  /\ Returned
  /\ initialized_
  /\ ~publish_diagnostics_
  /\ call.ret
  /\ Len(call.plan) >= 2
  /\ call.diag = <<>>
  /\ call.stats = <<>>
  /\ Len(call.twin.diag) = 1
  /\ Len(call.twin.stats) = 1

\* p is q with some of its frames left out.
RECURSIVE IsSubsequence(_, _)
IsSubsequence(p, q) ==
  IF p = <<>> THEN TRUE
  ELSE IF q = <<>> THEN FALSE
  ELSE IF Head(p) = Head(q) THEN IsSubsequence(Tail(p), Tail(q))
  ELSE IsSubsequence(p, Tail(q))

\* C12: for an input path of at least 2 frames the output of
\* interpolatePathPose2D starts with the first input frame and ends with the
\* last input frame, both unmodified, every input frame appears in the output
\* in its original order, and the output is at least as long as the input.
C12_EndpointsAndInputsKept ==
  (ipo.pc = "done" /\ Len(ipo.path) >= 2) =>
    /\ ipo.ok
    /\ ipo.out[1] = ipo.path[1]
    /\ ipo.out[Len(ipo.out)] = ipo.path[Len(ipo.path)]
    /\ IsSubsequence(ipo.path, ipo.out)
    /\ Len(ipo.out) >= Len(ipo.path)

C12_Witness ==
  /\ ipo.pc = "done"
  /\ Len(ipo.path) >= 3
  /\ Len(ipo.out) > Len(ipo.path)
  /\ ipo.path[1].theta > HalfTurn
  /\ ipo.path[Len(ipo.path)].theta > HalfTurn
  /\ ipo.path[2] # ipo.path[1]
  /\ ipo.path[2] # ipo.path[Len(ipo.path)]

\* The squared planar distance of frames a and b, over (a.den * b.den)^2.
PlanarDist2(a, b) ==
  LET dx == b.x * a.den - a.x * b.den
      dy == b.y * a.den - a.y * b.den
  IN  dx * dx + dy * dy

\* ceil(d / m) for frames a and b at planar distance d > m: the n with
\* (n - 1) * m < d <= n * m.
CeilOfRatio(a, b, m) ==
  LET u  == m * m * a.den * a.den * b.den * b.den
      d2 == PlanarDist2(a, b)
  IN  CHOOSE n \in 1..d2 : (n - 1) * (n - 1) * u < d2 /\ d2 <= n * n * u

\* The number of frames the rule inserts between a and b.
InsertionsDue(a, b, m) == IF WithinSpacing(a, b, m) THEN 0 ELSE CeilOfRatio(a, b, m)

\* Frame f is at a + j * delta / k, where delta is b - a in x and in y and the
\* normalized difference of the headings; headings are compared as angles.
AtStep(f, a, b, j, k) ==
  LET d     == a.den * b.den
      delta == NormalizeAngle(b.theta * a.den - a.theta * b.den, d)
  IN  /\ f.x * d * k = f.den * (a.x * b.den * k + j * (b.x * a.den - a.x * b.den))
      /\ f.y * d * k = f.den * (a.y * b.den * k + j * (b.y * a.den - a.y * b.den))
      /\ NormalizeAngle(f.theta * d * k, f.den * d * k)
           = NormalizeAngle(f.den * (a.theta * b.den * k + j * delta), f.den * d * k)

\* From place pos of out (the last emitted frame) on, out holds what the rule
\* emits for the input frames path[i], path[i + 1], ... and nothing else.
RECURSIVE FollowsRule(_, _, _, _, _)
FollowsRule(path, out, m, i, pos) ==
  IF i > Len(path) THEN pos = Len(out)
  ELSE LET n == InsertionsDue(out[pos], path[i], m)
       IN  /\ pos + n + 1 <= Len(out)
           /\ \A j \in 1..n : AtStep(out[pos + j], out[pos], path[i], j, n + 1)
           /\ out[pos + n + 1] = path[i]
           /\ FollowsRule(path, out, m, i + 1, pos + n + 1)

\* C13: for each consecutive pair (last emitted frame, next input frame) at
\* planar distance d, interpolatePathPose2D emits, if d > max_spacing, exactly
\* n = ceil(d / max_spacing) interpolated frames, the j-th at
\* last + j * delta / (n + 1) in x, y and heading (delta of the heading
\* normalized), and then the unmodified input frame; if d <= max_spacing it
\* emits the unmodified input frame only.  Frames x = 0 and x = 10 with
\* max_spacing 3 give x = 0, 2, 4, 6, 8, 10.
C13_InsertionRule ==
  (ipo.pc = "done" /\ Len(ipo.path) >= 2) =>
    /\ ipo.ok
    /\ FollowsRule(ipo.path, ipo.out, ipo.m, 2, 1)
    /\ (ipo.path = ExampleCall.path /\ ipo.m = ExampleCall.m) =>
         /\ Len(ipo.out) = 6
         /\ \A i \in 1..6 : /\ ipo.out[i].x = 2 * (i - 1) * ipo.out[i].den
                             /\ ipo.out[i].y = 0
                             /\ ipo.out[i].theta = 0

C13_Witness ==
  /\ ipo.pc = "done"
  /\ ipo.path = ExampleCall.path
  /\ ipo.m = ExampleCall.m
  /\ Len(ipo.out) = 2 + CeilOfRatio(ipo.path[1], ipo.path[2], ipo.m)

====
